---- MODULE Spec2Model ----
(***************************************************************************)
(* Model of app/notification.py: the Notifier class.                       *)
(*                                                                         *)
(* One notification cycle is one call of Notifier.notify_all(new_analysis).*)
(* Python dictionaries are functions whose DOMAIN is the key set; Python   *)
(* lists are sequences (index 1 here is Python's index 0).  The exchange   *)
(* entries of an analysis are mutable objects: within a cycle the entries  *)
(* self.last_analysis refers to are either objects kept from earlier       *)
(* cycles ("old") or the very objects of the new_analysis being processed  *)
(* ("new"), and a write through one name is seen through the other.        *)
(***************************************************************************)
EXTENDS Integers, Sequences, FiniteSets, TLC

VARIABLES
    notifier_config,  \* self.notifier_config
    settings,         \* self.config.settings
    configured,       \* self.<channel>_configured, per channel
    clients,          \* the channels whose client object was instantiated
    last_analysis,    \* self.last_analysis, by content
    new_analysis,     \* the argument of the latest notify_all, as it was passed
    cycle,            \* number of notify_all calls so far
    pc,               \* "ready", or "done" while a finished cycle is on record
    resent,           \* the latest cycle processed the same analysis as the one before
    calls,            \* transport calls (<client>.notify) of the latest cycle
    composites,       \* notify_custom_telegram invocations of the latest cycle
    trace,            \* indicator instances evaluated in the latest cycle
    pairs,            \* per (exchange, market) tallies of the latest cycle
    passes,           \* the templater passes completed in the latest cycle
    raised,           \* the fault that ended the latest notify_all, or NoFault
    generated         \* the lines status_generator was called for on its own

vars == <<notifier_config, settings, configured, clients, last_analysis,
          new_analysis, cycle, pc, resent, calls, composites, trace, pairs, passes, raised,
          generated>>

----------------------------------------------------------------------------
(* Channels and their configuration                                        *)

\* the order in which notify_all calls the channels
ChannelOrder == <<"slack", "discord", "twilio", "gmail", "telegram", "webhook", "stdout">>

Channels == {ChannelOrder[k] : k \in 1..Len(ChannelOrder)}

\* the keys __init__ reads from notifier_config[channel]['required'];
\* stdout's client takes no argument, its only required key is the switch
RequiredFields(c) ==
    CASE c = "twilio"   -> {"key", "secret", "sender_number", "receiver_number"}
      [] c = "discord"  -> {"webhook", "username"}
      [] c = "slack"    -> {"webhook"}
      [] c = "gmail"    -> {"username", "password", "destination_emails"}
      [] c = "telegram" -> {"token", "chat_id"}
      [] c = "webhook"  -> {"url"}
      [] c = "stdout"   -> {"enable"}

\* Python truthiness of a configuration value: "" is the empty value
Truthy(val) == val /= ""

\* a validation that accepts a channel as soon as one required value is set
validate_any_required(notifier, config) ==
    \E k \in DOMAIN config[notifier].required : Truthy(config[notifier].required[k])

_validate_required_config(notifier, config) ==
    \A k \in DOMAIN config[notifier].required : Truthy(config[notifier].required[k])

----------------------------------------------------------------------------
(* Analysis data                                                           *)

NoStatus == "<no status>"        \* the record has no 'status' key
NoFault == [channel |-> "", kind |-> "none"]

\* iteration orders of the dictionaries of an analysis (insertion order)
ExchangeOrder == <<"binance", "bittrex">>
MarketOrder == << <<"ETH", "BTC">>, <<"XRP", "BTC">> >>
FamilyOrder == <<"indicators", "informants", "crossovers">>
IndicatorOrder == <<"mfi", "rsi", "stoch_rsi", "macd", "ichimoku",
                    "ohlcv", "bollinger_bands", "ema">>

Keys(d, order) == SelectSeq(order, LAMBDA k : k \in DOMAIN d)

Last(seq) == seq[Len(seq)]

EmptyDict == [k \in {} |-> TRUE]

\* a numeric cell of a result row, and what format(value, '.8f') makes of it
Float(n) == [type |-> "float", n |-> n]
Format8f(v) == IF v.type = "float" THEN [type |-> "str", n |-> v.n] ELSE v

\* an AnalysisRecord as the producer hands it over: no 'status' key yet
Record(config, result) ==
    [kind |-> "analysis", config |-> config, result |-> result, status |-> NoStatus]

IsAnalysis(rec) == rec.kind = "analysis"

----------------------------------------------------------------------------
(* _indicator_message_templater                                            *)

\* the object self.last_analysis[exchange] refers to
LastObject(s, exchange) ==
    IF s.ref[exchange] = "new" THEN s.na[exchange] ELSE s.old[exchange]

\* lines 376-380: the lookup with its catch-all, which yields str()
last_status_lookup(s, exchange, market, indicator_type, indicator, index) ==
    IF exchange \notin DOMAIN s.ref THEN ""
    ELSE LET obj == LastObject(s, exchange) IN
         IF market \notin DOMAIN obj THEN ""
         ELSE IF indicator_type \notin DOMAIN obj[market] THEN ""
         ELSE IF indicator \notin DOMAIN obj[market][indicator_type] THEN ""
         ELSE IF index > Len(obj[market][indicator_type][indicator]) THEN ""
         ELSE LET rec == obj[market][indicator_type][indicator][index] IN
              IF ~IsAnalysis(rec) THEN ""
              ELSE IF rec.status = NoStatus THEN "" ELSE rec.status

\* lines 362-370
status_of(latest_result) ==
    IF latest_result.is_hot THEN "hot"
    ELSE IF latest_result.is_cold THEN "cold"
    ELSE "neutral"

\* a debounce that forgets the alert_enabled switch
should_alert_ignoring_enabled(config, status, last_status) ==
    IF "alert_frequency" \notin DOMAIN config THEN TRUE
    ELSE ~(config.alert_frequency = "once" /\ last_status = status)

\* a debounce that holds back every unchanged status, whatever the frequency
should_alert_on_change_only(config, status, last_status) ==
    /\ last_status /= status
    /\ "alert_enabled" \in DOMAIN config => config.alert_enabled

\* lines 382-391: a missing key raises inside the try and leaves should_alert
\* as it was at that point
should_alert(config, status, last_status) ==
    IF "alert_frequency" \notin DOMAIN config THEN TRUE
    ELSE LET after_frequency ==
                 ~(config.alert_frequency = "once" /\ last_status = status)
         IN IF "alert_enabled" \notin DOMAIN config THEN after_frequency
            ELSE IF ~config.alert_enabled THEN FALSE
            ELSE after_frequency

\* Template(template).render(...): the text of one fragment.  The empty
\* template renders no text, a blank one renders blank text, any other one
\* text that shows its variables.
render(template, values, exchange, market, indicator, index, analysis, status, last_status) ==
    IF template = "" THEN <<>>
    ELSE IF template = " " THEN << [blank |-> TRUE] >>
    ELSE << [blank |-> FALSE, template |-> template, values |-> values,
             exchange |-> exchange, market |-> market,
             base_currency |-> market[1], quote_currency |-> market[2],
             indicator |-> indicator, indicator_number |-> index - 1,
             config |-> analysis.config,
             status |-> status, last_status |-> last_status] >>

\* a test that takes any text, blank or not, for a message
not_empty(message) == message /= <<>>

\* message.strip() is non-empty
Stripped(message) == \E k \in 1..Len(message) : ~message[k].blank

----------------------------------------------------------------------------
(* The composite message                                                   *)

\* a generator that puts the primary glyph next to the hot or cold one
glyphs_in_addition(primary, state) ==
    (IF state = "cold" THEN <<"coldImoji">>
     ELSE IF state = "hot" THEN <<"hotImoji">>
     ELSE <<>>)
    \o (IF primary /\ (state = "cold" \/ state = "hot") THEN <<"primaryImoji">> ELSE <<>>)

\* lines 486-497: the glyphs appended to a line of the composite message
status_generator(primary, state) ==
    IF primary /\ (state = "cold" \/ state = "hot") THEN <<"primaryImoji">>
    ELSE IF state = "cold" THEN <<"coldImoji">>
    ELSE IF state = "hot" THEN <<"hotImoji">>
    ELSE <<>>

\* lines 446-470
bollinger_bands_state_calculation(upperband, middleband, lowerband, v_close) ==
    LET isInTop == v_close > middleband
        isDown == v_close < middleband
        isCold == isInTop /\ (upperband - v_close) < (v_close - middleband)
        isHot == ~isInTop /\ isDown /\ (v_close - lowerband) < (middleband - v_close)
    IN IF isCold THEN "cold" ELSE IF isHot THEN "hot" ELSE "neutral"

\* lines 472-484
moving_avg_status(key_value, crossed_value, is_hot, key_config, crossed_config) ==
    [key_period |-> key_config.period_count,
     direction |-> IF is_hot THEN "up" ELSE "down",
     crossed_period |-> crossed_config.period_count,
     glyphs |-> status_generator(FALSE, IF is_hot THEN "hot" ELSE "cold")]

IsStr(v) == v.type = "str"

\* an indicator block of the composite message can be written: the entry is
\* there and its value of the same name is text
BlockReadable(objectsData, name) ==
    /\ name \in DOMAIN objectsData.indicators
    /\ name \in DOMAIN objectsData.indicators[name].values
    /\ IsStr(objectsData.indicators[name].values[name])

\* lines 508-568 raise nothing: every key the fixed message reads is there
Assembles(objectsData) ==
    /\ "period_data" \in DOMAIN settings
    /\ "ohlcv" \in DOMAIN objectsData.informants
    /\ "close" \in DOMAIN objectsData.informants["ohlcv"].result
    /\ IsStr(objectsData.informants["ohlcv"].result["close"])
    /\ \A name \in {"mfi", "rsi", "stoch_rsi", "macd"} : BlockReadable(objectsData, name)
    /\ "bollinger_bands" \in DOMAIN objectsData.informants
    /\ {"upperband", "middleband", "lowerband"} \subseteq
           DOMAIN objectsData.informants["bollinger_bands"].result
    /\ "ema" \in DOMAIN objectsData.crossed
    /\ "period_count" \in DOMAIN objectsData.crossed["ema"].key_config
    /\ "period_count" \in DOMAIN objectsData.crossed["ema"].crossed_config
    /\ "ichimoku" \in DOMAIN objectsData.indicators

\* lines 509-568: the assembled message
CompositeMessage(objectsData) ==
    LET ind == objectsData.indicators
        bb == objectsData.informants["bollinger_bands"].result
        ema == objectsData.crossed["ema"]
        block(name) == [status |-> ind[name].status,
                        glyphs |-> status_generator(ind[name].primary, ind[name].status)]
        bb_state == bollinger_bands_state_calculation(
                        bb["upperband"].n, bb["middleband"].n, bb["lowerband"].n,
                        objectsData.informants["ohlcv"].result["close"].n)
    IN [name |-> objectsData.name,
        exchange |-> objectsData.exchange,
        period |-> settings.period_data,
        price |-> objectsData.informants["ohlcv"].result["close"],
        mfi |-> block("mfi"), rsi |-> block("rsi"),
        stoch_rsi |-> block("stoch_rsi"), macd |-> block("macd"),
        bollinger |-> [status |-> bb_state, glyphs |-> status_generator(FALSE, bb_state)],
        ema |-> moving_avg_status(ema.key_value, ema.crossed_value, ema.is_hot,
                                  ema.key_config, ema.crossed_config),
        ichimoku |-> block("ichimoku")]

Raise(s, channel, kind) == [s EXCEPT !.raised = [channel |-> channel, kind |-> kind]]

\* a composite path without its try: a fault of the assembly or of the
\* transport ends the pass
notify_custom_telegram_unguarded(s, channel, objectsData, failing) ==
    IF ~Assembles(objectsData) \/ (configured["telegram"] /\ "telegram" \in failing)
    THEN Raise(s, channel, "composite")
    ELSE [s EXCEPT !.composites =
                       Append(@, [pass |-> channel, exchange |-> objectsData.exchange,
                                  name |-> objectsData.name, assembled |-> TRUE,
                                  sent |-> configured["telegram"]])]

\* lines 499-576: everything happens inside one try, so nothing propagates;
\* the transport is used only if telegram is configured
notify_custom_telegram(s, channel, objectsData, failing) ==
    LET call == [channel |-> "telegram", kind |-> "composite",
                 payload |-> CompositeMessage(objectsData),
                 failed |-> "telegram" \in failing]
        Send(assembled, sends) ==
            [s EXCEPT !.composites =
                          Append(@, [pass |-> channel, exchange |-> objectsData.exchange,
                                     name |-> objectsData.name,
                                     assembled |-> assembled, sent |-> sends]),
                      !.calls = IF sends THEN Append(@, call) ELSE @]
        Try(assembled) == Send(assembled, assembled /\ configured["telegram"])
    IN Try(Assembles(objectsData))

----------------------------------------------------------------------------
(* One templater pass                                                      *)

Range(seq) == {seq[k] : k \in 1..Len(seq)}

\* lines 308-313 and 320-325 raise nothing: the config names its signals and
\* the latest row has a column for each
SignalsReadable(analysis) ==
    /\ "signal" \in DOMAIN analysis.config
    /\ Range(analysis.config.signal) \subseteq DOMAIN Last(analysis.result).cols

\* lines 308-313 and 320-325: the signal values, floats formatted
SignalValues(analysis) ==
    [signal \in Range(analysis.config.signal) |->
        Format8f(Last(analysis.result).cols[signal])]

\* lines 332-340: '{}_{}'.format(signal, index)
SignalColumn(signal, index) == signal \o "_" \o ToString(index)

\* lines 328-357 raise nothing
CrossoverReadable(na, exchange, market, analysis) ==
    /\ {"key_signal", "key_indicator_index", "crossed_signal", "crossed_indicator_index"}
           \subseteq DOMAIN analysis.config
    /\ LET key_signal == SignalColumn(analysis.config.key_signal,
                                      analysis.config.key_indicator_index)
           crossed_signal == SignalColumn(analysis.config.crossed_signal,
                                          analysis.config.crossed_indicator_index)
           name == SubSeq(key_signal, 1, Len(key_signal) - 2)
           cols == Last(analysis.result).cols
       IN /\ key_signal \in DOMAIN cols
          /\ crossed_signal \in DOMAIN cols
          /\ "informants" \in DOMAIN na[exchange][market]
          /\ name \in DOMAIN na[exchange][market]["informants"]
          /\ Len(na[exchange][market]["informants"][name]) >= 2
          /\ IsAnalysis(na[exchange][market]["informants"][name][1])
          /\ IsAnalysis(na[exchange][market]["informants"][name][2])

\* lines 328-359: the crossed pair of one crossover instance
CrossedPair(na, exchange, market, analysis) ==
    LET latest_result == Last(analysis.result)
        key_signal == SignalColumn(analysis.config.key_signal,
                                   analysis.config.key_indicator_index)
        crossed_signal == SignalColumn(analysis.config.crossed_signal,
                                       analysis.config.crossed_indicator_index)
        name == SubSeq(key_signal, 1, Len(key_signal) - 2)
    IN [name |-> name,
        key_value |-> Format8f(latest_result.cols[key_signal]),
        crossed_value |-> Format8f(latest_result.cols[crossed_signal]),
        is_hot |-> latest_result.is_hot,
        is_cold |-> latest_result.is_cold,
        key_config |-> na[exchange][market]["informants"][name][1].config,
        crossed_config |-> na[exchange][market]["informants"][name][2].config]

\* a tally that counts ichimoku like any other indicator
counts_every_indicator(indicator) == TRUE

\* lines 365 and 369: the indicator takes part in the hot/cold tally
counts_in_tally(indicator) == indicator /= "ichimoku"

\* lines 362-432: an indicators-family instance whose result has rows
ProcessIndicator(a, channel, template, exchange, market, indicator, index) ==
    LET indicator_type == "indicators"
        analysis == a.s.na[exchange][market][indicator_type][indicator][index]
        latest_result == Last(analysis.result)
        values == SignalValues(analysis)
        status == status_of(latest_result)
        hotCount == IF status = "hot" /\ counts_in_tally(indicator)
                    THEN a.hotCount + 1 ELSE a.hotCount
        couldCount == IF status = "cold" /\ counts_in_tally(indicator)
                      THEN a.couldCount + 1 ELSE a.couldCount
        \* line 373 writes into the object of new_analysis
        s1 == [a.s EXCEPT
                 !.na[exchange][market][indicator_type][indicator][index].status = status]
        \* lines 393-432; eligible: the row is hot or cold and should_alert holds
        Emit(last_status, eligible, primaryIndicators, fragment) ==
            LET jsonIndicator ==
                    [values |-> values, exchange |-> exchange, market |-> market,
                     base_currency |-> market[1], quote_currency |-> market[2],
                     indicator |-> indicator, indicator_number |-> index - 1,
                     config |-> analysis.config, status |-> status,
                     last_status |-> last_status,
                     primary |-> eligible /\ Len(primaryIndicators) = 0]
                seen == [channel |-> channel, exchange |-> exchange, market |-> market,
                         indicator |-> indicator, index |-> index,
                         config |-> analysis.config, status |-> status,
                         last_status |-> last_status, rendered |-> eligible,
                         fragment |-> fragment]
            IN [a EXCEPT !.s = [s1 EXCEPT !.trace = Append(@, seen)],
                         !.hotCount = hotCount,
                         !.couldCount = couldCount,
                         !.sendNotification = @ \/ eligible,
                         !.primaryIndicators = primaryIndicators,
                         !.new_message = @ \o fragment,
                         !.allIndicatorData.indicators = (indicator :> jsonIndicator) @@ @]
        Alert(last_status, eligible) ==
            Emit(last_status, eligible,
                 IF eligible THEN Append(a.primaryIndicators, indicator)
                 ELSE a.primaryIndicators,
                 IF eligible
                 THEN render(template, values, exchange, market, indicator, index,
                             analysis, status, last_status)
                 ELSE <<>>)
        \* lines 376-391
        Debounce(last_status) ==
            Alert(last_status,
                  /\ latest_result.is_hot \/ latest_result.is_cold
                  /\ should_alert(analysis.config, status, last_status))
    IN Debounce(last_status_lookup(s1, exchange, market, indicator_type, indicator, index))

\* a skip that still marks the record neutral
mark_neutral_on_skip(a, exchange, market, indicator_type, indicator, index) ==
    [a EXCEPT !.s.na[exchange][market][indicator_type][indicator][index].status = "neutral"]

\* lines 301-302: continue; the pass goes on as it was
skip_empty_result(a, exchange, market, indicator_type, indicator, index) == a

\* lines 300-432: the body of the innermost loop
ProcessInstance(a, channel, template, exchange, market, indicator_type, indicator, index) ==
    LET analysis == a.s.na[exchange][market][indicator_type][indicator][index] IN
    \* line 301 reads analysis['result']: an entry that is no longer a record raises
    IF ~IsAnalysis(analysis) THEN [a EXCEPT !.s = Raise(a.s, channel, "render")]
    ELSE IF Len(analysis.result) = 0
    THEN skip_empty_result(a, exchange, market, indicator_type, indicator, index)
    ELSE IF indicator_type = "informants" THEN
        IF ~SignalsReadable(analysis) THEN [a EXCEPT !.s = Raise(a.s, channel, "render")]
        ELSE [a EXCEPT !.informatntData =
                 (indicator :> [result |-> SignalValues(analysis),
                                config |-> analysis.config]) @@ @]
    ELSE IF indicator_type = "crossovers" THEN
        IF ~CrossoverReadable(a.s.na, exchange, market, analysis)
        THEN [a EXCEPT !.s = Raise(a.s, channel, "render")]
        ELSE LET dataCros == CrossedPair(a.s.na, exchange, market, analysis) IN
             [a EXCEPT !.allIndicatorData.crosed = TRUE,
                       !.crossedData = (dataCros.name :> dataCros) @@ @]
    ELSE
        IF ~SignalsReadable(analysis) THEN [a EXCEPT !.s = Raise(a.s, channel, "render")]
        ELSE ProcessIndicator(a, channel, template, exchange, market, indicator, index)

\* the instances of one (exchange, market) pair in traversal order
RECURSIVE Flatten(_)
Flatten(seqs) == IF seqs = <<>> THEN <<>> ELSE Head(seqs) \o Flatten(Tail(seqs))

Instances(entry, market) ==
    LET types == Keys(entry[market], FamilyOrder)
        ofIndicator(indicator_type, indicator) ==
            [index \in 1..Len(entry[market][indicator_type][indicator]) |->
                <<indicator_type, indicator, index>>]
        ofType(indicator_type) ==
            LET names == Keys(entry[market][indicator_type], IndicatorOrder) IN
            Flatten([k \in 1..Len(names) |-> ofIndicator(indicator_type, names[k])])
    IN Flatten([k \in 1..Len(types) |-> ofType(types[k])])

RECURSIVE ProcessInstances(_, _, _, _, _, _)
ProcessInstances(a, channel, template, exchange, market, todo) ==
    IF todo = <<>> \/ a.s.raised /= NoFault THEN a
    ELSE ProcessInstances(
             ProcessInstance(a, channel, template, exchange, market,
                             Head(todo)[1], Head(todo)[2], Head(todo)[3]),
             channel, template, exchange, market, Tail(todo))

\* a trigger that leaves out the count of eligible indicators
trigger_on_tally_alone(sendNotification, primaryIndicators, hotCount, couldCount) ==
    /\ sendNotification
    /\ \/ hotCount >= settings.max_hot_notification
       \/ couldCount >= settings.max_cold_notification

\* lines 434-435
composite_trigger(sendNotification, primaryIndicators, hotCount, couldCount) ==
    /\ sendNotification
    /\ Len(primaryIndicators) >= 2
    /\ \/ hotCount >= settings.max_hot_notification
       \/ couldCount >= settings.max_cold_notification

\* lines 277-439: one (exchange, market) pair
ProcessPair(s, new_message, channel, template, exchange, market, failing) ==
    LET start == [s |-> s,
                  new_message |-> new_message,
                  sendNotification |-> FALSE,
                  primaryIndicators |-> <<>>,
                  hotCount |-> 0,
                  couldCount |-> 0,
                  crossedData |-> EmptyDict,
                  informatntData |-> EmptyDict,
                  allIndicatorData |->
                      [name |-> market[1] \o market[2], exchange |-> exchange,
                       crossed |-> EmptyDict, informants |-> EmptyDict,
                       crosed |-> FALSE, indicators |-> EmptyDict]]
        \* lines 434-439, `a` being the state after the loops over the pair
        Conclude(a) ==
            LET tally == [pass |-> channel, exchange |-> exchange, market |-> market,
                          primaryIndicators |-> a.primaryIndicators,
                          hotCount |-> a.hotCount, couldCount |-> a.couldCount]
                s2 == [a.s EXCEPT !.pairs = Append(@, tally)]
                objectsData == [a.allIndicatorData EXCEPT !.crossed = a.crossedData,
                                                          !.informants = a.informatntData]
            IN IF a.s.raised /= NoFault THEN [s |-> a.s, new_message |-> a.new_message]
               ELSE IF composite_trigger(a.sendNotification, a.primaryIndicators,
                                         a.hotCount, a.couldCount)
               THEN [s |-> notify_custom_telegram(s2, channel, objectsData, failing),
                     new_message |-> a.new_message]
               ELSE [s |-> s2, new_message |-> a.new_message]
    IN Conclude(ProcessInstances(start, channel, template, exchange, market,
                                 Instances(s.na[exchange], market)))

\* the (exchange, market) pairs of an analysis in traversal order
PairsOf(na) ==
    LET exchanges == Keys(na, ExchangeOrder)
        ofExchange(exchange) ==
            LET markets == Keys(na[exchange], MarketOrder) IN
            [k \in 1..Len(markets) |-> <<exchange, markets[k]>>]
    IN Flatten([k \in 1..Len(exchanges) |-> ofExchange(exchanges[k])])

RECURSIVE ProcessPairs(_, _, _, _, _)
ProcessPairs(r, channel, template, todo, failing) ==
    IF todo = <<>> \/ r.s.raised /= NoFault THEN r
    ELSE ProcessPairs(
             ProcessPair(r.s, r.new_message, channel, template,
                         Head(todo)[1], Head(todo)[2], failing),
             channel, template, Tail(todo), failing)

\* lines 269-270: an empty last_analysis becomes the new_analysis object itself
adopt_if_empty(ref, na) ==
    IF DOMAIN ref = {} THEN [exchange \in DOMAIN na |-> "new"] ELSE ref

\* a merge that drops the exchanges it already holds
toggle_known_exchanges(ref, na) ==
    [exchange \in (DOMAIN ref \cup DOMAIN na) \ (DOMAIN ref \cap DOMAIN na) |->
        IF exchange \in DOMAIN na THEN "new" ELSE ref[exchange]]

\* a merge that keeps only the exchanges of the current cycle
replace_by_current(ref, na) == [exchange \in DOMAIN na |-> "new"]

\* a merge in which the entries last_analysis already holds win
keep_known_exchanges(ref, na) ==
    [exchange \in DOMAIN ref \cup DOMAIN na |->
        IF exchange \in DOMAIN ref THEN ref[exchange] ELSE "new"]

\* line 443: {**self.last_analysis, **new_analysis}; the values are the
\* exchange objects themselves, not copies
merge_last_analysis(ref, na) ==
    [exchange \in DOMAIN ref \cup DOMAIN na |->
        IF exchange \in DOMAIN na THEN "new" ELSE ref[exchange]]

\* lines 258-444
_indicator_message_templater(s, channel, template, failing) ==
    LET s1 == [s EXCEPT !.ref = adopt_if_empty(s.ref, s.na)]
        \* lines 441-444, `r` being the state after the loops
        Return(r) ==
            IF r.s.raised /= NoFault THEN r.s
            ELSE [r.s EXCEPT !.ref = merge_last_analysis(r.s.ref, r.s.na),
                             !.message = r.new_message,
                             !.passes = Append(@, [channel |-> channel,
                                                   template |-> template,
                                                   message |-> r.new_message])]
    IN Return(ProcessPairs([s |-> s1, new_message |-> <<>>], channel, template,
                           PairsOf(s.na), failing))

----------------------------------------------------------------------------
(* The channels                                                            *)

\* <client>.notify(payload): the call is made and may raise
Transport(s, channel, kind, payload, failing) ==
    LET call == [channel |-> channel, kind |-> kind, payload |-> payload,
                 failed |-> channel \in failing]
        s1 == [s EXCEPT !.calls = Append(@, call)]
    IN IF channel \in failing THEN Raise(s1, channel, "transport") ELSE s1

\* lines 130-203 and 226-239: notify_discord, notify_slack, notify_twilio,
\* notify_gmail, notify_telegram and notify_stdout have the same body
notify_templated(s, channel, failing) ==
    LET Notify(r) ==
            IF r.raised /= NoFault THEN r
            ELSE IF Stripped(r.message)
                 THEN Transport(r, channel, "message", r.message, failing)
                 ELSE r
    IN IF ~configured[channel] THEN s
       ELSE Notify(_indicator_message_templater(
                       s, channel, notifier_config[channel].optional.template, failing))

\* a reduction that keeps the first row instead of the last
reduce_to_first_row(analysis) ==
    IF Len(analysis.result) > 0 THEN [kind |-> "row", row |-> Head(analysis.result)]
    ELSE [kind |-> "empty"]

\* lines 218-222: the result reduced to its last row, or to ''
ReduceEntry(analysis) ==
    IF Len(analysis.result) > 0 THEN [kind |-> "row", row |-> Last(analysis.result)]
    ELSE [kind |-> "empty"]

\* lines 213-222 over the whole analysis
ReduceAnalysis(na) ==
    [exchange \in DOMAIN na |->
      [market \in DOMAIN na[exchange] |->
        [indicator_type \in DOMAIN na[exchange][market] |->
          [indicator \in DOMAIN na[exchange][market][indicator_type] |->
            [index \in 1..Len(na[exchange][market][indicator_type][indicator]) |->
              ReduceEntry(na[exchange][market][indicator_type][indicator][index])]]]]]

\* lines 205-224: the entries are replaced in place, in the objects of
\* new_analysis
notify_webhook(s, failing) ==
    IF ~configured["webhook"] THEN s
    ELSE LET Post(reduced) ==
                 Transport([s EXCEPT !.na = reduced], "webhook", "webhook", reduced, failing)
         IN Post(ReduceAnalysis(s.na))

notify_channel(s, channel, failing) ==
    IF channel = "webhook" THEN notify_webhook(s, failing)
    ELSE notify_templated(s, channel, failing)

\* lines 101-114: the channels in order; a raised fault ends the call
RECURSIVE notify_all(_, _, _)
notify_all(s, todo, failing) ==
    IF todo = <<>> \/ s.raised /= NoFault THEN s
    ELSE notify_all(notify_channel(s, Head(todo), failing), Tail(todo), failing)

\* the contents self.last_analysis refers to
Contents(s) == [exchange \in DOMAIN s.ref |-> LastObject(s, exchange)]

\* the state a notify_all call starts from: new_analysis holds fresh objects,
\* self.last_analysis refers to objects of earlier cycles
Enter(input) ==
    [na |-> input, old |-> last_analysis,
     ref |-> [exchange \in DOMAIN last_analysis |-> "old"],
     calls |-> <<>>, composites |-> <<>>, trace |-> <<>>, pairs |-> <<>>,
     passes |-> <<>>, message |-> <<>>, raised |-> NoFault]

----------------------------------------------------------------------------
(* The inputs: configurations and analyses                                 *)

MaxCycles == 3

Template == "{{indicator}} is {{status}}"

\* a configuration in which each channel has the given required keys empty
ConfigWithEmpty(empty) ==
    [c \in Channels |->
        [required |-> [k \in RequiredFields(c) |-> IF k \in empty[c] THEN "" ELSE "set"],
         optional |-> [template |-> Template]]]

\* every channel either complete or with all its required keys empty
ConfigEnabling(enabled) ==
    ConfigWithEmpty([c \in Channels |-> IF c \in enabled THEN {} ELSE RequiredFields(c)])

\* channels with some, but not all, of their required keys empty
PartialConfig ==
    ConfigWithEmpty([c \in Channels |->
        CASE c = "twilio"   -> {"secret"}
          [] c = "discord"  -> {"webhook"}
          [] c = "gmail"    -> {"username", "destination_emails"}
          [] c = "telegram" -> {"token"}
          [] c = "stdout"   -> {"enable"}
          [] OTHER          -> {}])

\* slack renders a template of blanks, telegram the usual one
BlankTemplateConfig ==
    [ConfigEnabling({"slack", "telegram"}) EXCEPT !["slack"].optional.template = " "]

Settings(max_hot, max_cold) ==
    [max_hot_notification |-> max_hot, max_cold_notification |-> max_cold,
     period_data |-> "1h"]

Policy(enabled, frequency, signal) ==
    [alert_enabled |-> enabled, alert_frequency |-> frequency, signal |-> <<signal>>]

Policies(signal) ==
    {Policy(enabled, frequency, signal) :
        enabled \in BOOLEAN, frequency \in {"always", "once"}}

\* policies that lack one of the two alert keys
IncompletePolicies(signal) ==
    {[alert_enabled |-> FALSE, signal |-> <<signal>>],
     [alert_frequency |-> "once", signal |-> <<signal>>]}

Row(state, cols) == [is_hot |-> state = "hot", is_cold |-> state = "cold", cols |-> cols]

\* the state of the row before the latest one
Earlier(state) == IF state = "hot" THEN "neutral" ELSE "hot"

\* one instance of an indicator: its result ends in a row of the given state
\* after an earlier row of another state, or has no row at all
Instance(indicator, policy, state) ==
    << Record(policy, IF state = "no rows" THEN <<>>
                      ELSE << Row(Earlier(state), indicator :> Float(40)),
                              Row(state, indicator :> Float(50)) >>) >>

Market1 == MarketOrder[1]
Market2 == MarketOrder[2]
Exchange1 == ExchangeOrder[1]
Exchange2 == ExchangeOrder[2]

\* an exchange entry with one market holding the given indicators only
IndicatorsEntry(market, indicators) == market :> ("indicators" :> indicators)

\* one indicator under every policy and in every state
SingleEntries ==
    {IndicatorsEntry(Market1, "rsi" :> Instance("rsi", policy, state)) :
        policy \in Policies("rsi"),
        state \in {"hot", "cold", "neutral", "no rows"}}

\* one hot or cold indicator under an incomplete policy
IncompleteEntries ==
    {IndicatorsEntry(Market1, "rsi" :> Instance("rsi", policy, state)) :
        policy \in IncompletePolicies("rsi"),
        state \in {"hot", "cold"}}

\* three indicators under one alert frequency
Triple(frequency, rsi, macd, ichimoku) ==
    IndicatorsEntry(Market1,
        ("rsi" :> Instance("rsi", Policy(TRUE, frequency, "rsi"), rsi))
        @@ ("macd" :> Instance("macd", Policy(TRUE, frequency, "macd"), macd))
        @@ ("ichimoku" :> Instance("ichimoku", Policy(TRUE, frequency, "ichimoku"), ichimoku)))

TripleEntries ==
    {Triple(frequency, rsi, macd, ichimoku) :
        frequency \in {"always", "once"},
        rsi \in {"hot", "cold"},
        macd \in {"hot", "cold"},
        ichimoku \in {"hot", "neutral"}}

\* an informant instance: a row of plain columns
Informant(signals, period) ==
    Record([signal |-> signals, period_count |-> period, candle_period |-> "1h"],
           << [is_hot |-> FALSE, is_cold |-> FALSE,
               cols |-> [c \in Range(signals) |-> Float(period)]] >>)

\* the ema crossover of the two ema informants
EmaCrossover(state) ==
    Record([key_signal |-> "ema", key_indicator_index |-> 0,
            crossed_signal |-> "ema", crossed_indicator_index |-> 1],
           << Row(state, ("ema_0" :> Float(7)) @@ ("ema_1" :> Float(9))) >>)

\* an entry that holds everything the composite message reads
FullEntry(frequency, state) ==
    Market1 :>
      (("indicators" :>
          [indicator \in {"mfi", "rsi", "stoch_rsi", "macd", "ichimoku"} |->
              Instance(indicator, Policy(TRUE, frequency, indicator), state)])
       @@ ("informants" :>
          (("ohlcv" :> << Informant(<<"close">>, 5) >>)
           @@ ("bollinger_bands" :>
                  << Informant(<<"upperband", "middleband", "lowerband">>, 6) >>)
           @@ ("ema" :> << Informant(<<"ema">>, 7), Informant(<<"ema">>, 9) >>)))
       @@ ("crossovers" :> ("ema" :> << EmaCrossover(state) >>)))

FullEntries == {FullEntry("always", "hot"), FullEntry("once", "cold")}

\* the second exchange: one indicator, alerting once
OtherEntries ==
    {IndicatorsEntry(Market2, "rsi" :> Instance("rsi", Policy(TRUE, "once", "rsi"), state)) :
        state \in {"hot", "no rows"}}

\* the analyses a cycle may bring
NewAnalyses ==
    {EmptyDict}
    \cup {Exchange1 :> e1 :
             e1 \in SingleEntries \cup IncompleteEntries \cup TripleEntries \cup FullEntries}
    \cup {Exchange2 :> e2 : e2 \in OtherEntries}
    \cup {(Exchange1 :> e1) @@ (Exchange2 :> e2) :
             e1 \in {Triple("once", "hot", "hot", "neutral"),
                     Triple("always", "cold", "cold", "hot")},
             e2 \in OtherEntries}

\* the transports that are down during a cycle: none, or the remote ones
Failures == {{}, {"slack", "telegram", "webhook"}}

NotifierConfigs ==
    {ConfigEnabling(enabled) :
        enabled \in SUBSET {"slack", "telegram", "webhook"}
                    \cup {{"webhook", "stdout"}, {"slack", "webhook", "stdout"}, Channels}}
    \cup {PartialConfig, BlankTemplateConfig}

\* the configurations and settings a Notifier is constructed with
Setups ==
    {<<config, Settings(2, 2)>> : config \in NotifierConfigs}
    \cup {<<ConfigEnabling(enabled), Settings(1, 3)>> :
             enabled \in {{"slack"}, {"telegram"}}}

----------------------------------------------------------------------------
(* The state machine                                                       *)

\* lines 23-99: __init__
Construct(config, setting) ==
    /\ notifier_config = config
    /\ settings = setting
    /\ configured = [c \in Channels |-> _validate_required_config(c, config)]
    /\ clients = {c \in Channels : _validate_required_config(c, config)}
    /\ last_analysis = EmptyDict
    /\ new_analysis = EmptyDict
    /\ cycle = 0
    /\ pc = "ready"
    /\ resent = FALSE
    /\ calls = <<>>
    /\ composites = <<>>
    /\ trace = <<>>
    /\ pairs = <<>>
    /\ passes = <<>>
    /\ raised = NoFault
    /\ generated = <<>>

\* lines 101-114: one call notify_all(input), the transports of the channels
\* in `failing` raising
Cycle(input, failing) ==
    /\ cycle < MaxCycles
    /\ \E s \in {notify_all(Enter(input), ChannelOrder, failing)} :
        /\ last_analysis' = Contents(s)
        /\ calls' = s.calls
        /\ composites' = s.composites
        /\ trace' = s.trace
        /\ pairs' = s.pairs
        /\ passes' = s.passes
        /\ raised' = s.raised
    /\ new_analysis' = input
    /\ cycle' = cycle + 1
    /\ pc' = "done"
    /\ UNCHANGED <<notifier_config, settings, configured, clients, generated>>

\* the producer hands over the analysis of a new cycle
NotifyAll(input, failing) ==
    /\ pc = "ready"
    /\ resent' = FALSE
    /\ Cycle(input, failing)

\* the producer hands over an analysis equal to that of the cycle just ended
Resend(failing) ==
    /\ pc = "done"
    /\ resent' = TRUE
    /\ Cycle(new_analysis, failing)

\* the caller is done with the finished cycle: its analysis and what the
\* cycle did are dropped, self.last_analysis stays
Discard ==
    /\ pc = "done"
    /\ pc' = "ready"
    /\ resent' = FALSE
    /\ new_analysis' = EmptyDict
    /\ calls' = <<>>
    /\ composites' = <<>>
    /\ trace' = <<>>
    /\ pairs' = <<>>
    /\ passes' = <<>>
    /\ raised' = NoFault
    /\ UNCHANGED <<notifier_config, settings, configured, clients, last_analysis, cycle,
                   generated>>

Init == \E setup \in Setups : Construct(setup[1], setup[2])

Next ==
    \/ \E input \in NewAnalyses, failing \in Failures : NotifyAll(input, failing)
    \/ \E failing \in Failures : Resend(failing)
    \/ Discard

Spec == Init /\ [][Next]_vars

----------------------------------------------------------------------------
(* status_generator on its own                                             *)

MaxLines == 3

\* the states a line of the composite message is written for
States == {"hot", "cold", "neutral"}

\* lines 486-497: one call status_generator(primary, state), as made for
\* every line of the composite message
Generate(primary, state) ==
    /\ Len(generated) < MaxLines
    /\ generated' = Append(generated, [primary |-> primary, state |-> state,
                                       glyphs |-> status_generator(primary, state)])
    /\ UNCHANGED <<notifier_config, settings, configured, clients, last_analysis,
                   new_analysis, cycle, pc, resent, calls, composites, trace, pairs,
                   passes, raised>>

GlyphInit == Construct(ConfigEnabling({"telegram"}), Settings(2, 2))

GlyphNext == \E primary \in BOOLEAN, state \in States : Generate(primary, state)

GlyphSpec == GlyphInit /\ [][GlyphNext]_vars

----------------------------------------------------------------------------
(* Properties                                                              *)

TraceIndex == 1..Len(trace)

\* the status self.last_analysis `la` holds for the coordinate of an
\* indicators-family instance, "" if it holds none
RecordedStatus(la, exchange, market, indicator, index) ==
    IF /\ exchange \in DOMAIN la
       /\ market \in DOMAIN la[exchange]
       /\ "indicators" \in DOMAIN la[exchange][market]
       /\ indicator \in DOMAIN la[exchange][market]["indicators"]
       /\ index <= Len(la[exchange][market]["indicators"][indicator])
       /\ la[exchange][market]["indicators"][indicator][index].kind = "analysis"
       /\ la[exchange][market]["indicators"][indicator][index].status /= NoStatus
    THEN la[exchange][market]["indicators"][indicator][index].status
    ELSE ""

RecordedFor(la, r) == RecordedStatus(la, r.exchange, r.market, r.indicator, r.index)

HasPolicy(r) ==
    /\ {"alert_enabled", "alert_frequency"} \subseteq DOMAIN r.config
    /\ r.config.alert_frequency \in {"always", "once"}

Alerting(r) == r.status \in {"hot", "cold"}

Produced(r) == r.fragment /= <<>>

\* the tally of the pair and pass an evaluated instance belongs to
TallyOf(r) ==
    {p \in Range(pairs) :
        p.pass = r.channel /\ p.exchange = r.exchange /\ p.market = r.market}

\* C1: in every templater pass, an indicators-family instance with a policy
\* produces a fragment, and is appended to primaryIndicators, only if its
\* status is hot or cold, alert_enabled is true, and alert_frequency is always
\* or the status differs from the one last_analysis held when the cycle began;
\* a neutral instance never produces a fragment.
C1_DebounceRule ==
    [][\A k \in 1..Len(trace') :
         LET r == trace'[k] IN
         /\ HasPolicy(r) /\ (Produced(r) \/ r.rendered) =>
               /\ Alerting(r)
               /\ r.config.alert_enabled
               /\ \/ r.config.alert_frequency = "always"
                  \/ /\ r.config.alert_frequency = "once"
                     /\ r.status /= RecordedFor(last_analysis, r)
         /\ r.status = "neutral" => ~Produced(r) /\ ~r.rendered
         /\ \A p \in {q \in Range(pairs') : q.pass = r.channel /\ q.exchange = r.exchange
                                            /\ q.market = r.market} :
               r.indicator \in Range(p.primaryIndicators) <=> r.rendered]_vars

\* C1 witness: an instance alerting once went from neutral to hot and
\* produced a fragment, and a disabled hot instance is on record somewhere
C1_Witness ==
    \E k \in TraceIndex :
        /\ HasPolicy(trace[k])
        /\ trace[k].config.alert_frequency = "once"
        /\ trace[k].config.alert_enabled
        /\ trace[k].status = "hot"
        /\ trace[k].last_status = "neutral"
        /\ Produced(trace[k])
        /\ \E p \in TallyOf(trace[k]) : trace[k].indicator \in Range(p.primaryIndicators)

\* C2 as stated: under always every cycle that ends hot or cold produces a
\* fragment (so does neutral -> hot); under once a fragment is produced only
\* on a change into hot or cold; a cycle that ends neutral produces none.
C2_AsStated ==
    [][\A k \in 1..Len(trace') :
         LET r == trace'[k] IN
         HasPolicy(r) =>
            /\ r.config.alert_frequency = "always" /\ Alerting(r) => Produced(r)
            /\ r.config.alert_frequency = "once" /\ Produced(r) =>
                  Alerting(r) /\ r.status /= RecordedFor(last_analysis, r)
            /\ r.status = "neutral" => ~Produced(r)]_vars

\* C2 amended: as stated, for instances whose alert_enabled is true.
C2_EnabledTransitions ==
    [][\A k \in 1..Len(trace') :
         LET r == trace'[k] IN
         HasPolicy(r) /\ r.config.alert_enabled =>
            /\ r.config.alert_frequency = "always" /\ Alerting(r) => Produced(r)
            /\ r.config.alert_frequency = "once" /\ Produced(r) =>
                  Alerting(r) /\ r.status /= RecordedFor(last_analysis, r)
            /\ r.status = "neutral" => ~Produced(r)]_vars

\* C2 witness: in one cycle an instance alerting always stays hot and
\* produces a fragment; another one alerting once stays hot and produces none
C2_Witness ==
    /\ \E k \in TraceIndex :
          /\ HasPolicy(trace[k])
          /\ trace[k].config.alert_frequency = "always"
          /\ trace[k].config.alert_enabled
          /\ trace[k].status = "hot" /\ trace[k].last_status = "neutral"
          /\ trace[k].channel = passes[1].channel
          /\ Produced(trace[k])
    /\ \E k \in TraceIndex :
          /\ HasPolicy(trace[k])
          /\ trace[k].config.alert_frequency = "once"
          /\ trace[k].config.alert_enabled
          /\ trace[k].status = "hot" /\ trace[k].last_status = "hot"
          /\ trace[k].channel = passes[1].channel
          /\ ~Produced(trace[k])

\* C3: on the first cycle after construction no alert is held back by the
\* debounce: an alert-enabled instance that is hot or cold produces a
\* fragment, also when it alerts once.
C3_FirstCycleUnsuppressed ==
    cycle = 1 =>
        \A k \in TraceIndex :
            HasPolicy(trace[k]) /\ trace[k].config.alert_enabled /\ Alerting(trace[k])
                => Produced(trace[k])

\* the instances that contributed a fragment to the message of a channel
Contributors(channel) ==
    {<<trace[k].exchange, trace[k].market, trace[k].indicator, trace[k].index>> :
        k \in {j \in TraceIndex : trace[j].channel = channel /\ Produced(trace[j])}}

\* C4: within one cycle the channels configured with the same template get
\* their message from the same set of contributing instances, whatever their
\* position in the dispatch order.
C4_SameContributors ==
    \A a, b \in 1..Len(passes) :
        passes[a].template = passes[b].template =>
            Contributors(passes[a].channel) = Contributors(passes[b].channel)

\* notify_custom_telegram was invoked for the pair of a tally in its pass
Fired(p) ==
    \E k \in 1..Len(composites) :
        /\ composites[k].pass = p.pass
        /\ composites[k].exchange = p.exchange
        /\ composites[k].name = p.market[1] \o p.market[2]

\* C5: for each (exchange, market) pair of a pass the composite alert is
\* fired iff len(primaryIndicators) >= 2 and hotCount or coldCount meets its
\* threshold.
C5_CompositeTrigger ==
    \A p \in Range(pairs) :
        Fired(p) <=>
            /\ Len(p.primaryIndicators) >= 2
            /\ \/ p.hotCount >= settings.max_hot_notification
               \/ p.couldCount >= settings.max_cold_notification

\* C5 witness: with max_hot_notification = 2, two eligible hot indicators and
\* a neutral one fire the composite alert, while in the same configuration
\* the pass of another cycle could not fire with a single eligible one
C5_Witness ==
    /\ settings.max_hot_notification = 2
    /\ \E p \in Range(pairs) :
          /\ p.primaryIndicators = <<"rsi", "macd">>
          /\ p.hotCount = 2
          /\ Fired(p)
          /\ \E k \in TraceIndex :
                /\ trace[k].channel = p.pass
                /\ trace[k].indicator = "ichimoku"
                /\ trace[k].status = "neutral"

\* the evaluated instances of the pair and pass of a tally that are in `state`
\* and are not ichimoku
Tallied(p, state) ==
    {k \in TraceIndex :
        /\ trace[k].channel = p.pass
        /\ trace[k].exchange = p.exchange
        /\ trace[k].market = p.market
        /\ trace[k].status = state
        /\ trace[k].indicator /= "ichimoku"}

\* C6: ichimoku, hot or cold, never adds to hotCount or coldCount of its
\* pair, and is under the same debounce as any other indicator.
C6_IchimokuOutsideTally ==
    /\ \A p \in Range(pairs) :
          /\ p.hotCount = Cardinality(Tallied(p, "hot"))
          /\ p.couldCount = Cardinality(Tallied(p, "cold"))
    /\ \A k \in TraceIndex :
          trace[k].indicator = "ichimoku" /\ HasPolicy(trace[k]) =>
              (Produced(trace[k]) <=>
                  /\ Alerting(trace[k])
                  /\ trace[k].config.alert_enabled
                  /\ \/ trace[k].config.alert_frequency = "always"
                     \/ trace[k].status /= trace[k].last_status)

\* C6 witness: a hot ichimoku produced a fragment in a pair whose hotCount
\* stayed 0
C6_Witness ==
    \E k \in TraceIndex :
        /\ trace[k].indicator = "ichimoku"
        /\ trace[k].status = "hot"
        /\ Produced(trace[k])
        /\ \E p \in TallyOf(trace[k]) :
              p.hotCount = 0 /\ "ichimoku" \in Range(p.primaryIndicators)

\* C7: an exchange that is no key of the cycle's analysis keeps its
\* last_analysis entry exactly as it was before the cycle.
C7_AbsentExchangeKept ==
    [][pc' = "done" =>
          \A exchange \in DOMAIN last_analysis \ DOMAIN new_analysis' :
              /\ exchange \in DOMAIN last_analysis'
              /\ last_analysis'[exchange] = last_analysis[exchange]]_vars

\* C7 witness: the third cycle has merged an analysis of the first exchange
\* while the entry of the second exchange, with its recorded status, is kept
C7_Witness ==
    /\ cycle = MaxCycles
    /\ pc = "done"
    /\ passes /= <<>>
    /\ DOMAIN new_analysis = {Exchange1}
    /\ Exchange2 \in DOMAIN last_analysis
    /\ RecordedStatus(last_analysis, Exchange2, Market2, "rsi", 1) = "hot"
    /\ RecordedStatus(last_analysis, Exchange1, Market1, "rsi", 1) = "cold"

AllRequiredSet(c) ==
    \A k \in RequiredFields(c) : notifier_config[c].required[k] /= ""

\* C9: a channel is enabled iff every required field is truthy; a channel
\* with an empty required field has no client and its notify is never
\* called, neither with the message of the cycle nor with a composite one.
C9_OnlyCompleteChannelsNotified ==
    /\ \A c \in Channels :
          /\ configured[c] <=> AllRequiredSet(c)
          /\ c \in clients <=> AllRequiredSet(c)
    /\ \A k \in 1..Len(calls) : AllRequiredSet(calls[k].channel)

\* C9 witness: a composite message was assembled while telegram lacks one
\* of its two required fields, so it was not sent; slack was notified
C9_Witness ==
    /\ notifier_config["telegram"].required["token"] = ""
    /\ notifier_config["telegram"].required["chat_id"] /= ""
    /\ \E k \in 1..Len(composites) : composites[k].assembled /\ ~composites[k].sent
    /\ \E k \in 1..Len(calls) : calls[k].channel = "slack"
    /\ \A k \in 1..Len(calls) : calls[k].channel /= "telegram"

\* the analysis holds an enabled instance alerting always that is hot or
\* cold: every templater pass renders a fragment for it
AlwaysAlerting(na) ==
    \E exchange \in DOMAIN na : \E market \in DOMAIN na[exchange] :
        /\ "indicators" \in DOMAIN na[exchange][market]
        /\ \E indicator \in DOMAIN na[exchange][market]["indicators"] :
              \E index \in 1..Len(na[exchange][market]["indicators"][indicator]) :
                  LET rec == na[exchange][market]["indicators"][indicator][index] IN
                  /\ rec.result /= <<>>
                  /\ {"alert_enabled", "alert_frequency"} \subseteq DOMAIN rec.config
                  /\ rec.config.alert_enabled
                  /\ rec.config.alert_frequency = "always"
                  /\ Last(rec.result).is_hot \/ Last(rec.result).is_cold

Notified(c) ==
    \E k \in 1..Len(calls) : calls[k].channel = c /\ calls[k].kind /= "composite"

\* the channel has something to send in this cycle: the webhook always has
\* its payload; a templated channel has a message when an instance alerts
\* always (stdout behind an enabled webhook reads reduced entries and has none)
HasMessage(c) ==
    \/ c = "webhook"
    \/ /\ AlwaysAlerting(new_analysis)
       /\ ~(c = "stdout" /\ configured["webhook"])

\* C10: a fault raised by one channel's transport does not keep the other
\* enabled channels that have something to send from being notified.
C10_ChannelIsolation ==
    raised.kind = "transport" =>
        \A c \in Channels \ {raised.channel} :
            configured[c] /\ HasMessage(c) => Notified(c)

\* the webhook calls of the latest cycle
WebhookCalls == {k \in 1..Len(calls) : calls[k].kind = "webhook"}

\* what the claim says an instance becomes in the webhook payload
Serialized(analysis) ==
    IF Len(analysis.result) = 0 THEN [kind |-> "empty"]
    ELSE [kind |-> "row", row |-> analysis.result[Len(analysis.result)]]

\* C11: the webhook client is notified with the structure of the analysis in
\* which every instance with no rows is replaced by the empty string and every
\* instance with rows by its last row.
C11_WebhookPayload ==
    \A k \in WebhookCalls :
        LET payload == calls[k].payload IN
        /\ calls[k].channel = "webhook"
        /\ DOMAIN payload = DOMAIN new_analysis
        /\ \A exchange \in DOMAIN new_analysis :
            /\ DOMAIN payload[exchange] = DOMAIN new_analysis[exchange]
            /\ \A market \in DOMAIN new_analysis[exchange] :
                /\ DOMAIN payload[exchange][market] = DOMAIN new_analysis[exchange][market]
                /\ \A indicator_type \in DOMAIN new_analysis[exchange][market] :
                    /\ DOMAIN payload[exchange][market][indicator_type]
                           = DOMAIN new_analysis[exchange][market][indicator_type]
                    /\ \A indicator \in DOMAIN new_analysis[exchange][market][indicator_type] :
                        LET sent == payload[exchange][market][indicator_type][indicator]
                            given == new_analysis[exchange][market][indicator_type][indicator]
                        IN /\ Len(sent) = Len(given)
                           /\ \A index \in 1..Len(given) :
                                  sent[index] = Serialized(given[index])

\* C11 witness: the webhook was notified after a templater pass with an
\* analysis of two exchanges, one instance reduced to its last, hot row (the
\* row before it was neutral) and one instance without rows reduced to ''
C11_Witness ==
    /\ passes /= <<>>
    /\ \E k \in WebhookCalls :
        /\ {Exchange1, Exchange2} \subseteq DOMAIN calls[k].payload
        /\ calls[k].payload[Exchange1][Market1]["indicators"]["rsi"][1]
               = [kind |-> "row", row |-> Row("hot", "rsi" :> Float(50))]
        /\ calls[k].payload[Exchange2][Market2]["indicators"]["rsi"][1] = [kind |-> "empty"]

\* the indicators-family instances of the cycle's analysis that have no rows
EmptyInstances ==
    {c \in {<<exchange, market, indicator, index>> :
                exchange \in DOMAIN new_analysis, market \in Range(MarketOrder),
                indicator \in Range(IndicatorOrder), index \in 1..2} :
        /\ c[2] \in DOMAIN new_analysis[c[1]]
        /\ "indicators" \in DOMAIN new_analysis[c[1]][c[2]]
        /\ c[3] \in DOMAIN new_analysis[c[1]][c[2]]["indicators"]
        /\ c[4] <= Len(new_analysis[c[1]][c[2]]["indicators"][c[3]])
        /\ new_analysis[c[1]][c[2]]["indicators"][c[3]][c[4]].result = <<>>}

\* C12: an instance whose result has no rows is skipped for the cycle: no
\* pass evaluates it or renders a fragment for it, it is in no
\* primaryIndicators, the tallies of its pair count evaluated instances only,
\* and no status is written onto its record.
C12_EmptyResultSkipped ==
    pc = "done" =>
        \A c \in EmptyInstances :
            /\ \A k \in TraceIndex :
                  <<trace[k].exchange, trace[k].market, trace[k].indicator, trace[k].index>> /= c
            /\ \A p \in Range(pairs) :
                  p.exchange = c[1] /\ p.market = c[2] =>
                      /\ c[3] \notin Range(p.primaryIndicators)
                      /\ p.hotCount = Cardinality(Tallied(p, "hot"))
                      /\ p.couldCount = Cardinality(Tallied(p, "cold"))
            /\ passes /= <<>> => RecordedStatus(last_analysis, c[1], c[2], c[3], c[4]) = ""

\* C12 witness: a pass went over a pair whose only instance has no rows: the
\* tally of the pair is empty and the merged record has no status
C12_Witness ==
    /\ pc = "done"
    /\ passes /= <<>>
    /\ <<Exchange1, Market1, "rsi", 1>> \in EmptyInstances
    /\ \E p \in Range(pairs) :
          /\ p.exchange = Exchange1 /\ p.market = Market1
          /\ p.hotCount = 0 /\ p.couldCount = 0 /\ p.primaryIndicators = <<>>
    /\ last_analysis[Exchange1][Market1]["indicators"]["rsi"][1].kind = "analysis"
    /\ last_analysis[Exchange1][Market1]["indicators"]["rsi"][1].status = NoStatus

\* C13: in every templater pass of a cycle, whichever channel triggers it,
\* the last_status read for an instance is the status last_analysis held for
\* its coordinate when the cycle began (the one classified in the cycle
\* before), or the empty string if it held none.
C13_LastStatusOfPreviousCycle ==
    [][\A k \in 1..Len(trace') :
          trace'[k].last_status = RecordedFor(last_analysis, trace'[k])]_vars

\* the entries of an analysis, whatever they have become
Entries(na) ==
    UNION {UNION {UNION {UNION {Range(na[exchange][market][indicator_type][indicator]) :
                indicator \in DOMAIN na[exchange][market][indicator_type]} :
            indicator_type \in DOMAIN na[exchange][market]} :
        market \in DOMAIN na[exchange]} :
    exchange \in DOMAIN na}

\* the config and result the cycle's analysis was passed with at a coordinate
\* that last_analysis shares with it
Unchanged(exchange, market, indicator_type, indicator) ==
    LET kept == last_analysis[exchange][market][indicator_type][indicator]
        given == new_analysis[exchange][market][indicator_type][indicator]
    IN \A index \in 1..Len(given) :
           /\ kept[index].config = given[index].config
           /\ kept[index].result = given[index].result

\* C14: writing the status is the only mutation of analysis data: after a
\* complete notify_all, whatever channels are enabled, every entry of
\* last_analysis is still a record with its config and result, those of the
\* cycle's analysis as they were passed.
C14_OnlyStatusMutated ==
    pc = "done" /\ raised = NoFault =>
        /\ \A rec \in Entries(last_analysis) : rec.kind = "analysis"
        /\ passes /= <<>> =>
              \A exchange \in DOMAIN new_analysis :
              \A market \in DOMAIN new_analysis[exchange] :
              \A indicator_type \in DOMAIN new_analysis[exchange][market] :
              \A indicator \in DOMAIN new_analysis[exchange][market][indicator_type] :
                  Unchanged(exchange, market, indicator_type, indicator)

\* the entry `kept` is the instance `given` of the cycle's analysis: the
\* record itself, with or without a status, or what the webhook left of it
IsCurrent(kept, given) ==
    IF kept.kind = "analysis"
    THEN kept.config = given.config /\ kept.result = given.result
    ELSE kept = Serialized(given)

\* the exchange entry `kept` has the markets, families, indicators and
\* instances of the exchange entry `given`, and no other
ReflectsOnly(kept, given) ==
    /\ DOMAIN kept = DOMAIN given
    /\ \A market \in DOMAIN given :
        /\ DOMAIN kept[market] = DOMAIN given[market]
        /\ \A indicator_type \in DOMAIN given[market] :
            /\ DOMAIN kept[market][indicator_type] = DOMAIN given[market][indicator_type]
            /\ \A indicator \in DOMAIN given[market][indicator_type] :
                /\ Len(kept[market][indicator_type][indicator])
                       = Len(given[market][indicator_type][indicator])
                /\ \A index \in 1..Len(given[market][indicator_type][indicator]) :
                       IsCurrent(kept[market][indicator_type][indicator][index],
                                 given[market][indicator_type][indicator][index])

\* the coordinates an indicators-family status can be recorded at
Coordinates ==
    {<<exchange, market, indicator, index>> :
        exchange \in Range(ExchangeOrder), market \in Range(MarketOrder),
        indicator \in Range(IndicatorOrder), index \in 1..2}

\* the coordinate is an instance of the cycle's analysis that has rows
Classified(na, c) ==
    /\ c[1] \in DOMAIN na
    /\ c[2] \in DOMAIN na[c[1]]
    /\ "indicators" \in DOMAIN na[c[1]][c[2]]
    /\ c[3] \in DOMAIN na[c[1]][c[2]]["indicators"]
    /\ c[4] <= Len(na[c[1]][c[2]]["indicators"][c[3]])
    /\ na[c[1]][c[2]]["indicators"][c[3]][c[4]].result /= <<>>

\* C15: after the merge, for every exchange of the cycle's analysis
\* last_analysis holds that cycle's entry and nothing of the entry it held
\* before: a coordinate of the exchange that is absent from the cycle, or was
\* skipped for an empty result, has no recorded status; and the first pass of
\* a cycle reads as last_status what last_analysis recorded, the empty string
\* for such a coordinate.
C15_PresentExchangeReplaced ==
    [][/\ pc' = "done" /\ passes' /= <<>> =>
            \A exchange \in DOMAIN new_analysis' :
                /\ exchange \in DOMAIN last_analysis'
                /\ ReflectsOnly(last_analysis'[exchange], new_analysis'[exchange])
                /\ \A c \in Coordinates :
                       c[1] = exchange /\ ~Classified(new_analysis', c) =>
                           RecordedStatus(last_analysis', c[1], c[2], c[3], c[4]) = ""
       /\ last_analysis /= EmptyDict =>
            \A k \in 1..Len(trace') :
                trace'[k].channel = trace'[1].channel =>
                    trace'[k].last_status = RecordedFor(last_analysis, trace'[k])]_vars

\* C15 witness: the second cycle brought the first exchange with rsi alone,
\* now cold, after a first cycle that brought both exchanges, the first one
\* with rsi (hot), macd and ichimoku: the entry of the first exchange holds
\* rsi only, the second exchange is kept
C15_Witness ==
    /\ cycle = 2 /\ pc = "done" /\ ~resent
    /\ passes /= <<>>
    /\ DOMAIN new_analysis = {Exchange1}
    /\ Exchange2 \in DOMAIN last_analysis
    /\ DOMAIN last_analysis[Exchange1][Market1]["indicators"] = {"rsi"}
    /\ RecordedStatus(last_analysis, Exchange1, Market1, "macd", 1) = ""
    /\ \E k \in TraceIndex :
          /\ trace[k].indicator = "rsi"
          /\ trace[k].status = "cold"
          /\ trace[k].last_status = "hot"

\* the evaluated instances counted by Tallied that passed the debounce
EligibleTallied(p, state) == {k \in Tallied(p, state) : trace[k].rendered}

\* C16: for each pair of a pass hotCount and coldCount count the hot and the
\* cold instances, ichimoku apart, that are alert-eligible in the pass; one
\* that is hot or cold but disabled or held back by once does not count; and
\* primaryIndicators names the eligible instances.
C16_CountsOnlyEligible ==
    \A p \in Range(pairs) :
        /\ p.hotCount = Cardinality(EligibleTallied(p, "hot"))
        /\ p.couldCount = Cardinality(EligibleTallied(p, "cold"))
        /\ Range(p.primaryIndicators) =
               {trace[k].indicator : k \in {j \in TraceIndex :
                   /\ trace[j].channel = p.pass /\ trace[j].exchange = p.exchange
                   /\ trace[j].market = p.market /\ trace[j].rendered}}

\* the indicator blocks of a composite message that carry the primary glyph
PrimaryBlocks(message) ==
    {name \in {"mfi", "rsi", "stoch_rsi", "macd", "ichimoku"} :
        message[name].glyphs = <<"primaryImoji">>}

\* C17: whenever a composite alert is sent, exactly one of the indicators
\* attached to it is marked primary: the first one that became eligible in the
\* pass over the pair.
C17_OnePrimary ==
    \A k \in 1..Len(calls) :
        calls[k].kind = "composite" => Cardinality(PrimaryBlocks(calls[k].payload)) = 1

\* C18: an instance whose config lacks alert_frequency or alert_enabled is
\* allowed to alert: when it is hot or cold it produces a fragment in every
\* cycle, whatever the key that is there says and whatever the status it had
\* in the cycle before.
C18_FailOpen ==
    [][\A k \in 1..Len(trace') :
          LET r == trace'[k] IN
          /\ ~({"alert_enabled", "alert_frequency"} \subseteq DOMAIN r.config)
          /\ Alerting(r)
          /\ r.last_status = RecordedFor(last_analysis, r)
          => Produced(r)]_vars

\* the tally of a pair meets the condition of lines 434-435, so the
\* composite path was entered for the pair
Triggered(p) ==
    /\ Len(p.primaryIndicators) >= 2
    /\ \/ p.hotCount >= settings.max_hot_notification
       \/ p.couldCount >= settings.max_cold_notification

\* the fragments a pass rendered, in order
Fragments(channel) ==
    LET seen == SelectSeq(trace, LAMBDA r : r.channel = channel)
    IN Flatten([k \in 1..Len(seen) |-> seen[k].fragment])

\* C19: once the composite path is entered for a pair, a fault while
\* assembling or sending its message stays inside that path: no composite message goes out when the
\* assembly faulted, the pairs after it are still processed, the pass returns
\* the per-instance message it rendered, and the merge runs.
C19_CompositeFaultIsolated ==
    /\ \A j \in 1..Len(composites) :
          composites[j].sent <=> composites[j].assembled /\ configured["telegram"]
    /\ ~(\E j \in 1..Len(composites) : composites[j].sent) =>
           ~(\E k \in 1..Len(calls) : calls[k].kind = "composite")
    /\ \A t \in Range(pairs) :
          Triggered(t) =>
              /\ raised.kind /= "composite"
              /\ \A pair \in Range(PairsOf(new_analysis)) :
                     \E p \in Range(pairs) :
                         p.pass = t.pass /\ p.exchange = pair[1] /\ p.market = pair[2]
              /\ \E k \in 1..Len(passes) :
                     passes[k].channel = t.pass /\ passes[k].message = Fragments(t.pass)
              /\ DOMAIN new_analysis \subseteq DOMAIN last_analysis

\* C19 witness: the composite alert of the first exchange could not be
\* assembled (the pair has no mfi), the pair of the second exchange was
\* processed after it, and the channel was notified with the message of the
\* pass
C19_Witness ==
    \E j \in 1..Len(composites) :
        /\ ~composites[j].assembled
        /\ composites[j].exchange = Exchange1
        /\ \E p \in Range(pairs) :
              p.pass = composites[j].pass /\ p.exchange = Exchange2
        /\ \E k \in 1..Len(calls) :
              /\ calls[k].channel = composites[j].pass
              /\ calls[k].kind = "message"
              /\ calls[k].payload = Fragments(composites[j].pass)
              /\ calls[k].payload /= <<>>

\* some instance was alert-eligible in the pass of the channel
EligibleIn(channel) ==
    \E k \in TraceIndex : trace[k].channel = channel /\ trace[k].rendered

\* C20: notify is called on a template-rendering channel only with a message
\* that is non-empty after stripping; in a cycle in which no instance is
\* alert-eligible it is called on none of them.
C20_EmptyMessageSuppressed ==
    \A k \in 1..Len(calls) :
        calls[k].kind = "message" =>
            /\ calls[k].channel \in Channels \ {"webhook"}
            /\ \E i \in 1..Len(calls[k].payload) : ~calls[k].payload[i].blank
            /\ EligibleIn(calls[k].channel)

\* C20 witness: an eligible instance was rendered by slack's template of
\* blanks and by telegram's template: slack was not notified, telegram was
C20_Witness ==
    /\ \E k \in 1..Len(passes) :
          /\ passes[k].channel = "slack"
          /\ passes[k].message = << [blank |-> TRUE] >>
    /\ EligibleIn("slack")
    /\ \A k \in 1..Len(calls) : calls[k].channel /= "slack"
    /\ \E k \in 1..Len(calls) : calls[k].channel = "telegram" /\ calls[k].kind = "message"

\* the composite messages handed to the telegram client in the latest cycle
CompositeCalls == {k \in 1..Len(calls) : calls[k].kind = "composite"}

\* C21: in one notify_all cycle the composite alert of an (exchange, market)
\* pair is sent at most once, however many channels are enabled and whatever
\* the alert_frequency of the indicators.
C21_OneCompositePerPair ==
    \A i, j \in CompositeCalls :
        /\ calls[i].payload.exchange = calls[j].payload.exchange
        /\ calls[i].payload.name = calls[j].payload.name
        => i = j

\* the glyph of a hot or a cold state
StateGlyph(state) == IF state = "hot" THEN "hotImoji" ELSE "coldImoji"

\* C22 as stated: status_generator emits the hot glyph for hot and the cold
\* glyph for cold, and the primary glyph in addition to it when primary is
\* true; for neutral it emits no glyph whatever primary is.
C22_AsStated ==
    \A k \in 1..Len(generated) :
        LET line == generated[k] IN
        /\ line.state \in {"hot", "cold"} =>
              /\ StateGlyph(line.state) \in Range(line.glyphs)
              /\ "primaryImoji" \in Range(line.glyphs) <=> line.primary
        /\ line.state = "neutral" => line.glyphs = <<>>

\* C22 amended: status_generator emits exactly one glyph when state is hot or
\* cold: the primary glyph when primary is true, in place of the hot or cold
\* one, otherwise the hot glyph for hot and the cold glyph for cold; for
\* neutral it emits no glyph whatever primary is.
C22_OneGlyph ==
    \A k \in 1..Len(generated) :
        LET line == generated[k] IN
        /\ line.state \in {"hot", "cold"} /\ line.primary =>
              line.glyphs = <<"primaryImoji">>
        /\ line.state \in {"hot", "cold"} /\ ~line.primary =>
              line.glyphs = <<StateGlyph(line.state)>>
        /\ line.state = "neutral" => line.glyphs = <<>>

\* C22 witness: a primary hot line, a plain cold line and a primary neutral
\* line were generated
C22_Witness ==
    /\ Len(generated) = 3
    /\ generated[1] = [primary |-> TRUE, state |-> "hot", glyphs |-> <<"primaryImoji">>]
    /\ generated[2] = [primary |-> FALSE, state |-> "cold", glyphs |-> <<"coldImoji">>]
    /\ generated[3] = [primary |-> TRUE, state |-> "neutral", glyphs |-> <<>>]

====
